---- MODULE Spec2Model ----
(***************************************************************************)
(* Row-selection strategies of the Kaczmarz solver (kaczmarz/_variants.py). *)
(*                                                                         *)
(* Rows are numbered 0..m-1 as in the source.  Real numbers are exact      *)
(* rationals <<numerator, denominator>> in lowest terms with a positive    *)
(* denominator; norms are compared through their squares.                  *)
(***************************************************************************)
EXTENDS Integers, Sequences, FiniteSets, TLC

VARIABLES
    A,          \* self._A : row index -> row (tuple of integers)
    b,          \* self._b : row index -> integer
    x0,         \* self._x0: initial iterate (tuple of rationals)
    xk,         \* self._xk: running iterate (tuple of rationals)
    pc,         \* position of the solver loop: "select", "update", "error"
    calls,      \* number of select_row_index calls started so far
    arg,        \* the iterate passed to the last select_row_index call
    ret,        \* value returned by the last select_row_index call
    outcome,    \* "none" before any call, "returned", or "raised"
    row_index,  \* Cyclic._row_index
    next_i,     \* Lookahead._next_i: <<>> is None, <<i>> holds i
    p,          \* Random._p: <<>> is None (uniform), else row index -> weight
    quantile,   \* Quantile._quantile (rational)
    window,     \* WindowedQuantile._window (sequence, oldest first)
    maxlen,     \* maxlen of WindowedQuantile._window
    selectable, \* RandomOrthoGraph._selectable (set of row indices)
    last,       \* locals of the last call: candidate, distance, threshold
    hist        \* history of the calls (record per call, oldest first)

vars == <<A, b, x0, xk, pc, calls, arg, ret, outcome, row_index, next_i, p,
          quantile, window, maxlen, selectable, last, hist>>

\* the problem data, fixed at construction
dataVars == <<A, b, x0>>

\* the private state of the strategies
stratVars == <<row_index, next_i, p, quantile, window, maxlen, selectable>>

----------------------------------------------------------------------------
(* Bounds of the model. *)

MaxRows == 3

MaxCalls == 3

MaxCyclicCalls == 7

MaxRandomRows == 2

MaxWindow == 2

(* The "no projection" value returned by the quantile family. *)
SKIP == -1

----------------------------------------------------------------------------
(* Exact rational arithmetic. *)

Abs(v) == IF v < 0 THEN -v ELSE v

RECURSIVE GCD(_, _)
GCD(u, v) == IF v = 0 THEN u ELSE GCD(v, u % v)

Rat(n, d) ==
    LET g == GCD(Abs(n), Abs(d))
        s == IF d < 0 THEN -1 ELSE 1
    IN  <<(s * n) \div g, (s * d) \div g>>

RInt(n) == <<n, 1>>

RAdd(u, v) == Rat(u[1] * v[2] + v[1] * u[2], u[2] * v[2])

RSub(u, v) == Rat(u[1] * v[2] - v[1] * u[2], u[2] * v[2])

RMul(u, v) == Rat(u[1] * v[1], u[2] * v[2])

RDiv(u, v) == Rat(u[1] * v[2], u[2] * v[1])

RAbs(u) == <<Abs(u[1]), u[2]>>

RLt(u, v) == u[1] * v[2] < v[1] * u[2]

RLe(u, v) == u[1] * v[2] <= v[1] * u[2]

RECURSIVE RSum(_, _)
RSum(f, n) == IF n = 0 THEN RInt(0) ELSE RAdd(RSum(f, n - 1), f[n])

----------------------------------------------------------------------------
(* The solver data the strategies read. *)

n_rows == Cardinality(DOMAIN A)

RowIdx == 0 .. (n_rows - 1)

\* A[i] @ x
RowDot(i, x) == RSum([j \in 1 .. Len(x) |-> RMul(RInt(A[i][j]), x[j])], Len(x))

\* (b - A @ x)[i]
Residual(x, i) == RSub(RInt(b[i]), RowDot(i, x))

\* squared Euclidean norm of b - A @ x
ResidualNormSq(x) ==
    LET sq == [i \in 1 .. n_rows |->
                 RMul(Residual(x, i - 1), Residual(x, i - 1))]
    IN  RSum(sq, n_rows)

\* squared Euclidean norm of row i
RowNormSq(i) ==
    LET sq == [j \in 1 .. Len(A[i]) |-> RInt(A[i][j] * A[i][j])]
    IN  RSum(sq, Len(A[i]))

\* np.argmax(np.abs(b - A @ x)): the first index of the largest entry
RECURSIVE ArgMaxFrom(_, _, _)
ArgMaxFrom(x, i, best) ==
    IF i >= n_rows THEN best
    ELSE IF RLt(RAbs(Residual(x, best)), RAbs(Residual(x, i)))
         THEN ArgMaxFrom(x, i + 1, i)
         ELSE ArgMaxFrom(x, i + 1, best)

ArgMaxAbsResidual(x) == ArgMaxFrom(x, 1, 0)

\* Base._update_iterate: orthogonal projection onto row ik, no move on SKIP
UpdateIterate(x, ik) ==
    IF ik < 0 THEN x
    ELSE LET c == RDiv(Residual(x, ik), RowNormSq(ik))
         IN  [j \in 1 .. Len(x) |-> RAdd(x[j], RMul(c, RInt(A[ik][j])))]

----------------------------------------------------------------------------
(* The linear systems the solver is constructed with. *)

RowSet == {<<1, 0>>, <<0, 1>>, <<1, 1>>}

BSet == {0, 1}

X0Set == {<<RInt(0), RInt(0)>>, <<RInt(1), RInt(0)>>}

Systems ==
    UNION {[A: [0 .. (m - 1) -> RowSet], b: [0 .. (m - 1) -> BSet], x0: X0Set]
           : m \in 1 .. MaxRows}

NoLocals == [cand |-> SKIP, distance |-> RInt(0), threshold |-> RInt(0),
             before |-> {}]

\* Base.__init__: the solver holds system s and starts at its x0
InitBase(s) ==
    /\ A = s.A
    /\ b = s.b
    /\ x0 = s.x0
    /\ xk = s.x0
    /\ calls = 0
    /\ arg = s.x0
    /\ ret = SKIP
    /\ outcome = "none"
    /\ last = NoLocals
    /\ hist = <<>>

\* Base.__next__, second half: apply the projection for the returned row
Update ==
    /\ pc = "update"
    /\ xk' = UpdateIterate(xk, ret)
    /\ pc' = "select"
    /\ UNCHANGED <<dataVars, stratVars, calls, arg, ret, outcome, last, hist>>

----------------------------------------------------------------------------
(* Cyclic *)

CyclicInit ==
    /\ \E s \in Systems : InitBase(s)
    /\ pc = "select"
    /\ row_index = -1
    /\ next_i = <<>>
    /\ p = <<>>
    /\ quantile = RInt(1)
    /\ window = <<>>
    /\ maxlen = 0
    /\ selectable = {}

\* a pointer that stops at the last row instead of wrapping
Cyclic_next_row_saturating(r) == IF r + 1 >= n_rows THEN r ELSE r + 1

\* line 28
Cyclic_next_row(r) == (1 + r) % n_rows

Cyclic_select_row_index ==
    /\ pc = "select"
    /\ calls < MaxCyclicCalls
    /\ row_index' = Cyclic_next_row(row_index)
    /\ ret' = row_index'
    /\ outcome' = "returned"
    /\ arg' = xk
    /\ calls' = calls + 1
    /\ hist' = Append(hist, [ret |-> ret', arg |-> xk])
    /\ pc' = "update"
    /\ UNCHANGED <<dataVars, xk, next_i, p, quantile, window, maxlen,
                   selectable, last>>

CyclicNext == Cyclic_select_row_index \/ Update

SpecCyclic == CyclicInit /\ [][CyclicNext]_vars

\* C1: the n-th call of Cyclic returns (n - 1) mod m whatever the iterate, so
\* each call follows its predecessor by one with wraparound after m - 1, any
\* m consecutive calls return every index of 0..m-1 once, the (k+m)-th call
\* repeats the k-th, and SKIP is never returned.
C1_CyclicRoundRobin ==
    \A k \in 1 .. Len(hist) :
        /\ hist[k].ret = (k - 1) % n_rows
        /\ hist[k].ret # SKIP
        /\ k > 1 => hist[k].ret = IF hist[k - 1].ret = n_rows - 1
                                  THEN 0 ELSE hist[k - 1].ret + 1
        /\ k >= n_rows =>
              /\ {hist[j].ret : j \in (k - n_rows + 1) .. k} = RowIdx
              /\ \A i, j \in (k - n_rows + 1) .. k :
                     hist[i].ret = hist[j].ret => i = j
        /\ k > n_rows => hist[k].ret = hist[k - n_rows].ret

\* C1 witness: a system of three rows has wrapped around twice, under
\* iterates that differ from call to call.
C1_Witness ==
    /\ n_rows = 3
    /\ Len(hist) >= 2 * n_rows + 1
    /\ hist[1].arg # hist[2].arg
    /\ hist[2 * n_rows + 1].ret = 0

----------------------------------------------------------------------------
(* MaxDistance *)

MaxDistanceInit == CyclicInit

\* the largest signed entry of the residual, np.abs forgotten
RECURSIVE ArgMaxSignedFrom(_, _, _)
ArgMaxSignedFrom(x, i, best) ==
    IF i >= n_rows THEN best
    ELSE IF RLt(Residual(x, best), Residual(x, i))
         THEN ArgMaxSignedFrom(x, i + 1, i)
         ELSE ArgMaxSignedFrom(x, i + 1, best)

MaxDistance_choice_signed(xarg) == ArgMaxSignedFrom(xk, 1, 0)

\* lines 46-47: the residual is taken at self._xk, whatever iterate is passed
MaxDistance_choice(xarg) == ArgMaxAbsResidual(xk)

MaxDistance_select_row_index ==
    /\ pc = "select"
    /\ calls < MaxCalls
    /\ ret' = MaxDistance_choice(xk)
    /\ outcome' = "returned"
    /\ arg' = xk
    /\ calls' = calls + 1
    /\ hist' = Append(hist, [ret |-> ret', arg |-> xk])
    /\ pc' = "update"
    /\ UNCHANGED <<dataVars, xk, stratVars, last>>

MaxDistanceNext == MaxDistance_select_row_index \/ Update

SpecMaxDistance == MaxDistanceInit /\ [][MaxDistanceNext]_vars

\* |b[i] - A[i].x|
Distance(x, i) == RAbs(Residual(x, i))

----------------------------------------------------------------------------
(* Lookahead *)

LookaheadInit == CyclicInit

\* lines 63-65: no best pair yet, the best norms are (inf, inf)
Lookahead_start == [best_i |-> -1, next_i |-> -1, found |-> FALSE,
                    norm2 |-> RInt(0), norm1 |-> RInt(0)]

\* one turn of the loop with the cache written outside the comparison
Lookahead_step_unconditional(acc, ik) ==
    LET next_xk == UpdateIterate(xk, ik)
        ik2 == ArgMaxAbsResidual(next_xk)
        next_next_xk == UpdateIterate(next_xk, ik2)
        n2 == ResidualNormSq(next_next_xk)
        n1 == ResidualNormSq(next_xk)
        less == \/ ~acc.found
                \/ RLt(n2, acc.norm2)
                \/ (n2 = acc.norm2 /\ RLt(n1, acc.norm1))
    IN  IF less
        THEN [best_i |-> ik, next_i |-> ik2, found |-> TRUE,
              norm2 |-> n2, norm1 |-> n1]
        ELSE [acc EXCEPT !.next_i = ik2]

\* lines 67-76: one turn of the loop, for candidate ik
Lookahead_step(acc, ik) ==
    LET next_xk == UpdateIterate(xk, ik)
        ik2 == ArgMaxAbsResidual(next_xk)
        next_next_xk == UpdateIterate(next_xk, ik2)
        n2 == ResidualNormSq(next_next_xk)
        n1 == ResidualNormSq(next_xk)
        less == \/ ~acc.found
                \/ RLt(n2, acc.norm2)
                \/ (n2 = acc.norm2 /\ RLt(n1, acc.norm1))
    IN  IF less
        THEN [best_i |-> ik, next_i |-> ik2, found |-> TRUE,
              norm2 |-> n2, norm1 |-> n1]
        ELSE acc

\* lines 66-76: the loop over range(n_rows)
RECURSIVE Lookahead_search(_, _)
Lookahead_search(ik, acc) ==
    IF ik >= n_rows THEN acc
    ELSE Lookahead_search(ik + 1, Lookahead_step(acc, ik))

Lookahead_select_row_index ==
    /\ pc = "select"
    /\ calls < MaxCalls
    /\ IF next_i # <<>>
       THEN /\ ret' = next_i[1]
            /\ next_i' = <<>>
            /\ hist' = Append(hist, [ret |-> ret', arg |-> xk,
                                     kind |-> "consume"])
       ELSE LET r == Lookahead_search(0, Lookahead_start)
            IN  /\ ret' = r.best_i
                /\ next_i' = <<r.next_i>>
                /\ hist' = Append(hist, [ret |-> ret', arg |-> xk,
                                         kind |-> "search"])
    /\ outcome' = "returned"
    /\ arg' = xk
    /\ calls' = calls + 1
    /\ pc' = "update"
    /\ UNCHANGED <<dataVars, xk, row_index, p, quantile, window, maxlen,
                   selectable, last>>

LookaheadNext == Lookahead_select_row_index \/ Update

SpecLookahead == LookaheadInit /\ [][LookaheadNext]_vars

\* the greedy continuation i2 of the pair (i, i2) searched from iterate x
SecondIndex(x, i) == ArgMaxAbsResidual(UpdateIterate(x, i))

\* C2: Lookahead calls alternate between a fresh search (cache empty on
\* entry) and a cache consumption; the search leaves in the cache the second
\* index of its winning pair, and the next call returns exactly that index
\* and leaves the cache empty.
C2_LookaheadCache ==
    /\ \A k \in 1 .. Len(hist) :
           /\ hist[k].kind = IF k % 2 = 1 THEN "search" ELSE "consume"
           /\ hist[k].kind = "consume" =>
                 hist[k].ret = SecondIndex(hist[k - 1].arg, hist[k - 1].ret)
    /\ Len(hist) = calls
    /\ next_i = IF calls % 2 = 0 THEN <<>>
                ELSE <<SecondIndex(hist[calls].arg, hist[calls].ret)>>

\* C2 witness: a search won by a candidate other than the first, then a
\* consumption returning a different row, then a second search.
C2_Witness ==
    /\ Len(hist) >= 3
    /\ hist[1].ret > 0
    /\ hist[2].ret # hist[1].ret
    /\ hist[2].ret # n_rows - 1
    /\ hist[3].kind = "search"

----------------------------------------------------------------------------
(* Random and SVRandom *)

\* the result of the floating-point division 0.0 / 0.0
NaN == <<0, 0>>

IsNaN(u) == u[2] = 0

\* np.random.choice(n_rows, p=pp) can return i: any row when pp is None,
\* else a row of positive probability
Random_can_draw(pp, i) == IF pp = <<>> THEN TRUE ELSE RLt(RInt(0), pp[i])

\* np.random.choice refuses probabilities that contain NaN
Random_choice_raises(pp) ==
    IF pp = <<>> THEN FALSE ELSE \E i \in RowIdx : IsNaN(pp[i])

\* lines 109-110: squared_row_norms / squared_row_norms.sum()
SVRandom_p ==
    LET squared_row_norms == [i \in RowIdx |-> RowNormSq(i)]
        total == RSum([i \in 1 .. n_rows |-> squared_row_norms[i - 1]], n_rows)
    IN  [i \in RowIdx |->
           IF total[1] = 0 THEN NaN ELSE RDiv(squared_row_norms[i], total)]

SVRowSet == {<<0, 0>>, <<1, 0>>, <<0, 2>>, <<1, 1>>}

SVSystems ==
    UNION {[A: [0 .. (m - 1) -> SVRowSet], b: [0 .. (m - 1) -> BSet],
            x0: {<<RInt(0), RInt(0)>>}]
           : m \in 1 .. MaxRows}

SVRandomInit ==
    /\ \E s \in SVSystems : InitBase(s)
    /\ pc = "construct"
    /\ row_index = -1
    /\ next_i = <<>>
    /\ p = <<>>
    /\ quantile = RInt(1)
    /\ window = <<>>
    /\ maxlen = 0
    /\ selectable = {}

\* lines 107-110
SVRandom_init ==
    /\ pc = "construct"
    /\ p' = SVRandom_p
    /\ pc' = "select"
    /\ UNCHANGED <<dataVars, xk, calls, arg, ret, outcome, row_index, next_i,
                   quantile, window, maxlen, selectable, last, hist>>

\* lines 93-94, reached with the distribution the constructor left
Random_select_row_index ==
    /\ pc = "select"
    /\ calls < MaxCalls
    /\ calls' = calls + 1
    /\ arg' = xk
    /\ IF Random_choice_raises(p)
       THEN /\ outcome' = "raised"
            /\ pc' = "error"
            /\ UNCHANGED ret
       ELSE /\ \E ik \in RowIdx : Random_can_draw(p, ik) /\ ret' = ik
            /\ outcome' = "returned"
            /\ pc' = "select"
    /\ UNCHANGED <<dataVars, xk, stratVars, last, hist>>

SVRandomNext == SVRandom_init \/ Random_select_row_index

SpecSVRandom == SVRandomInit /\ [][SVRandomNext]_vars

\* C7: SVRandom's constructor sets p[i] = row_norm[i]^2 / sum_j row_norm[j]^2
\* and, when every row norm is zero, takes a defined outcome (it fails or
\* falls back to uniform) and leaves no NaN entry in the distribution.
C7_SVRandomDefined ==
    pc # "construct" =>
        /\ p # <<>>
        /\ \A i \in RowIdx :
              /\ ~IsNaN(p[i])
              /\ \A j \in RowIdx :
                    p[i][1] * p[j][2] * RowNormSq(j)[1]
                        = p[j][1] * p[i][2] * RowNormSq(i)[1]
        /\ RSum([i \in 1 .. n_rows |-> p[i - 1]], n_rows) = RInt(1)
        /\ (n_rows = 2 /\ RowNormSq(0) = RInt(1) /\ RowNormSq(1) = RInt(4))
              => (p[0] = <<1, 5>> /\ p[1] = <<4, 5>>)

----------------------------------------------------------------------------
(* Quantile *)

\* np.quantile(d, q), linear interpolation between the order statistics
RECURSIVE Insert(_, _)
Insert(s, v) ==
    IF Len(s) = 0 THEN <<v>>
    ELSE IF RLe(v, Head(s)) THEN <<v>> \o s
         ELSE <<Head(s)>> \o Insert(Tail(s), v)

RECURSIVE Sorted(_)
Sorted(s) == IF Len(s) = 0 THEN <<>> ELSE Insert(Sorted(Tail(s)), Head(s))

NpQuantile(d, q) ==
    LET s == Sorted(d)
        h == RMul(q, RInt(Len(s) - 1))
        lo == h[1] \div h[2]
        hi == IF lo + 1 < Len(s) THEN lo + 1 ELSE lo
        g == RSub(h, RInt(lo))
    IN  RAdd(s[lo + 1], RMul(g, RSub(s[hi + 1], s[lo + 1])))

\* np.isclose defaults: atol = 1e-8, rtol = 1e-5
Atol == <<1, 100000000>>

Rtol == <<1, 100000>>

\* a comparison decided by exact equality alone
IsCloseExact(u, v) == u = v

\* np.isclose(u, v): |u - v| <= atol + rtol * |v|.  With |u - v| = dn/dd and
\* |v| = vn/vd this is dn * vd * 10^8 <= dd * (vd + 1000 * vn), evaluated by
\* one integer division to stay within the integer range.
IsClose(u, v) ==
    LET d == RAbs(RSub(u, v))
        w == RAbs(v)
    IN  \/ d[1] = 0
        \/ (d[2] * (w[2] + (Atol[2] \div Rtol[2]) * w[1])) \div (d[1] * w[2])
              >= Atol[2]

\* line 142
Quantile_distance(x, ik) == RAbs(RSub(RInt(b[ik]), RowDot(ik, x)))

\* line 145: the distances of all rows, in row order
Quantile_threshold_distances(x) ==
    [i \in 1 .. n_rows |-> RAbs(Residual(x, i - 1))]

\* an acceptance test that lost its tolerant equality
Quantile_accepts_strict(distance, threshold) == RLt(distance, threshold)

\* line 158
Quantile_accepts(distance, threshold) ==
    RLt(distance, threshold) \/ IsClose(distance, threshold)

QuantileSet == {RInt(0), <<1, 2>>, RInt(1)}

ZeroX == <<RInt(0), RInt(0)>>

\* two rows whose distances from the origin differ by one part in 200000
NearTieSystems ==
    {[A |-> [i \in 0 .. 1 |-> IF i = 0 THEN <<1, 0>> ELSE <<0, 1>>],
      b |-> [i \in 0 .. 1 |-> IF i = 0 THEN 200000 ELSE 200001],
      x0 |-> ZeroX]}

RandomSystems ==
    UNION {[A: [0 .. (m - 1) -> RowSet], b: [0 .. (m - 1) -> BSet],
            x0: X0Set]
           : m \in 1 .. MaxRandomRows}

QuantileInit ==
    /\ \E s \in RandomSystems \cup NearTieSystems : InitBase(s)
    /\ pc = "select"
    /\ row_index = -1
    /\ next_i = <<>>
    /\ p = <<>>
    /\ quantile \in QuantileSet
    /\ window = <<>>
    /\ maxlen = 0
    /\ selectable = {}

\* lines 152-161
Quantile_select_row_index ==
    /\ pc = "select"
    /\ calls < MaxCalls
    /\ \E ik \in RowIdx :
          /\ Random_can_draw(p, ik)
          /\ LET distance == Quantile_distance(xk, ik)
                 threshold == NpQuantile(Quantile_threshold_distances(xk),
                                         quantile)
             IN  /\ last' = [NoLocals EXCEPT !.cand = ik,
                                              !.distance = distance,
                                              !.threshold = threshold]
                 /\ ret' = IF Quantile_accepts(distance, threshold)
                           THEN ik ELSE SKIP
    /\ outcome' = "returned"
    /\ arg' = xk
    /\ calls' = calls + 1
    /\ pc' = "update"
    /\ UNCHANGED <<dataVars, xk, stratVars, hist>>

QuantileNext == Quantile_select_row_index \/ Update

SpecQuantile == QuantileInit /\ [][QuantileNext]_vars

\* the smallest of the distances |b - A.x| over all rows
MinDistance(x) == NpQuantile(Quantile_threshold_distances(x), RInt(0))

\* the row distances at x are not all equal
NonDegenerate(x) == \E i, j \in RowIdx : Distance(x, i) # Distance(x, j)

\* d exceeds t by no more than 1e-8 + 1e-5 * t
WithinTolerance(d, t) ==
    LET e == RSub(d, t)
    IN  \/ e[1] <= 0
        \/ (e[2] * (t[2] + 1000 * t[1])) \div (e[1] * t[2]) >= 100000000

\* C8 as stated: with quantile = 0.0 and row distances not all equal, a
\* candidate whose distance strictly exceeds the minimum distance is answered
\* by SKIP, and a candidate is returned only when its distance equals the
\* minimum.
C8_QuantileZeroStrict ==
    (quantile = RInt(0) /\ outcome = "returned" /\ NonDegenerate(arg)) =>
        /\ RLt(MinDistance(arg), Distance(arg, last.cand)) => ret = SKIP
        /\ ret # SKIP =>
              (ret = last.cand /\ Distance(arg, ret) = MinDistance(arg))

\* C8 amended: with quantile = 0.0 and row distances not all equal, a
\* candidate whose distance exceeds the minimum distance by more than the
\* tolerance 1e-8 + 1e-5 * minimum is answered by SKIP; a candidate is
\* returned exactly when its distance is within that tolerance of the minimum.
C8_QuantileZeroTolerant ==
    (quantile = RInt(0) /\ outcome = "returned" /\ NonDegenerate(arg)) =>
        /\ last.threshold = MinDistance(arg)
        /\ last.distance = Distance(arg, last.cand)
        /\ ret \in {SKIP, last.cand}
        /\ ret = SKIP <=>
              ~WithinTolerance(Distance(arg, last.cand), MinDistance(arg))

\* C8 witness: after a projection, a candidate farther than the minimum was
\* answered by SKIP.
C8_Witness ==
    /\ quantile = RInt(0)
    /\ outcome = "returned"
    /\ calls >= 2
    /\ NonDegenerate(arg)
    /\ RLt(MinDistance(arg), Distance(arg, last.cand))
    /\ ret = SKIP

\* C9: with quantile = 1.0 every candidate drawn by the wrapped Random
\* policy is returned and SKIP never is, so the indices returned are the
\* indices Random alone would return for the same draws.
C9_QuantileOneAccepts ==
    (quantile = RInt(1) /\ outcome = "returned") =>
        /\ ret # SKIP
        /\ ret = last.cand
        /\ ret \in RowIdx
        /\ Random_can_draw(p, ret)

\* C9 witness: after a projection, the candidate drawn was the row of
\* largest distance, strictly farther than another row, and was returned.
C9_Witness ==
    /\ quantile = RInt(1)
    /\ outcome = "returned"
    /\ calls >= 2
    /\ NonDegenerate(arg)
    /\ \A j \in RowIdx : RLe(Distance(arg, j), Distance(arg, last.cand))
    /\ ret = last.cand

----------------------------------------------------------------------------
(* WindowedQuantile *)

\* a list that grows without evicting
DequeAppend_unbounded(w, v, n) == Append(w, v)

\* deque([], maxlen=n).append(v): the oldest entry leaves a full deque
DequeAppend(w, v, n) ==
    IF n = 0 THEN w
    ELSE IF Len(w) = n THEN Append(Tail(w), v)
         ELSE Append(w, v)

WindowedQuantileInit ==
    /\ \E s \in RandomSystems : InitBase(s)
    /\ pc = "select"
    /\ row_index = -1
    /\ next_i = <<>>
    /\ p = <<>>
    /\ quantile \in QuantileSet
    /\ window = <<>>
    /\ maxlen \in (1 .. MaxWindow) \cup {n_rows}
    /\ selectable = {}

\* lines 152-161 with the overrides of lines 211-217
WindowedQuantile_select_row_index ==
    /\ pc = "select"
    /\ calls < MaxCalls
    /\ \E ik \in RowIdx :
          /\ Random_can_draw(p, ik)
          /\ LET distance == Quantile_distance(xk, ik)
                 appended == DequeAppend(window, distance, maxlen)
                 threshold == NpQuantile(appended, quantile)
                 result == IF Quantile_accepts(distance, threshold)
                           THEN ik ELSE SKIP
             IN  /\ window' = appended
                 /\ last' = [NoLocals EXCEPT !.cand = ik,
                                              !.distance = distance,
                                              !.threshold = threshold]
                 /\ ret' = result
                 /\ hist' = Append(hist, [cand |-> ik, arg |-> xk,
                                          distance |-> distance,
                                          threshold |-> threshold,
                                          ret |-> result])
    /\ outcome' = "returned"
    /\ arg' = xk
    /\ calls' = calls + 1
    /\ pc' = "update"
    /\ UNCHANGED <<dataVars, xk, row_index, next_i, p, quantile, maxlen,
                   selectable>>

WindowedQuantileNext == WindowedQuantile_select_row_index \/ Update

SpecWindowedQuantile ==
    WindowedQuantileInit /\ [][WindowedQuantileNext]_vars

\* the candidate-row distances computed in calls max(1, n - W + 1) .. n
RecentDistances(n, W) ==
    LET first == IF n - W + 1 > 1 THEN n - W + 1 ELSE 1
    IN  [k \in 1 .. (n - first + 1) |-> hist[first + k - 1].distance]

\* C3: at the n-th call of WindowedQuantile with window capacity W the
\* threshold is the quantile of exactly the candidate distances computed in
\* calls max(1, n - W + 1) .. n, and every call, accepted or answered by
\* SKIP, appends exactly one distance to the window.
C3_WindowedThreshold ==
    /\ Len(hist) = calls
    /\ Len(window) = IF calls < maxlen THEN calls ELSE maxlen
    /\ \A k \in 1 .. Len(window) :
          window[k] = hist[calls - Len(window) + k].distance
    /\ \A n \in 1 .. Len(hist) :
          /\ hist[n].distance = Distance(hist[n].arg, hist[n].cand)
          /\ hist[n].threshold =
                NpQuantile(RecentDistances(n, maxlen), quantile)

\* C3 witness: more calls than the window holds, one answered by SKIP and
\* one accepted, and the evicted distance differs from every one kept.
C3_Witness ==
    /\ maxlen >= 2
    /\ calls > maxlen
    /\ \E i, j \in 1 .. Len(hist) :
          hist[i].ret = SKIP /\ hist[j].ret # SKIP
    /\ \A k \in 1 .. Len(window) : window[k] # hist[calls - maxlen].distance

----------------------------------------------------------------------------
(* RandomOrthoGraph *)

\* line 243: entry (i, j) of A @ A.T
OrthoGraph(i, j) ==
    RSum([k \in 1 .. Len(A[i]) |-> RInt(A[i][k] * A[j][k])], Len(A[i]))[1]

\* a neighbour set that leaves the graph out
RandomOrthoGraph_newly_selectable_self(i) == {i}

\* lines 254-255: the rows j with G[i, j] != 0
RandomOrthoGraph_newly_selectable(i) ==
    {j \in RowIdx : OrthoGraph(i, j) # 0}

\* the selected row removed before its neighbours are added
RandomOrthoGraph_update_selectable_swapped(sel, ik) ==
    (sel \ {ik}) \cup RandomOrthoGraph_newly_selectable(ik)

\* lines 257-261: union with the neighbours, then ik removed
RandomOrthoGraph_update_selectable(sel, ik) ==
    (sel \cup RandomOrthoGraph_newly_selectable(ik)) \ {ik}

\* a population that falls back to every row when nothing is selectable
RandomOrthoGraph_population_fallback(sel) ==
    IF sel = {} THEN RowIdx ELSE sel

\* lines 264-266: the population np.random.choice draws from; the weights
\* are the default ones, so every member can be drawn
RandomOrthoGraph_population(sel) == sel

\* line 249: the rows with a nonzero entry of A @ x0 - b
RandomOrthoGraph_initial_selectable ==
    {i \in RowIdx : Residual(x0, i)[1] # 0}

OrthoRowSet == RowSet \cup {<<1, -1>>}

OrthoSystems ==
    UNION {[A: [0 .. (m - 1) -> OrthoRowSet], b: [0 .. (m - 1) -> BSet],
            x0: X0Set]
           : m \in 1 .. MaxRows}

\* lines 241-252
RandomOrthoGraphInit ==
    /\ \E s \in OrthoSystems : InitBase(s)
    /\ pc = "select"
    /\ row_index = -1
    /\ next_i = <<>>
    /\ p = [i \in RowIdx |-> RInt(1)]
    /\ quantile = RInt(1)
    /\ window = <<>>
    /\ maxlen = 0
    /\ selectable = RandomOrthoGraph_initial_selectable

\* lines 263-268; np.random.choice raises ValueError on an empty population
RandomOrthoGraph_select_row_index ==
    /\ pc = "select"
    /\ calls < MaxCalls
    /\ calls' = calls + 1
    /\ arg' = xk
    /\ IF RandomOrthoGraph_population(selectable) = {}
       THEN /\ outcome' = "raised"
            /\ pc' = "error"
            /\ last' = [NoLocals EXCEPT !.before = selectable]
            /\ UNCHANGED <<ret, selectable>>
       ELSE \E ik \in RandomOrthoGraph_population(selectable) :
               /\ selectable' = RandomOrthoGraph_update_selectable(selectable, ik)
               /\ ret' = ik
               /\ last' = [NoLocals EXCEPT !.cand = ik, !.before = selectable]
               /\ outcome' = "returned"
               /\ pc' = "update"
    /\ UNCHANGED <<dataVars, xk, row_index, next_i, p, quantile, window,
                   maxlen, hist>>

RandomOrthoGraphNext == RandomOrthoGraph_select_row_index \/ Update

SpecRandomOrthoGraph ==
    RandomOrthoGraphInit /\ [][RandomOrthoGraphNext]_vars

\* a select_row_index call that returned a row takes this step
Returns == pc = "select" /\ outcome' = "returned"

\* C4: the row ik a RandomOrthoGraph call returns was selectable when the
\* call started and is not when it returns, although ik is its own neighbour
\* in G; a row enters the selectable set only in a call that returns another
\* row j with G[j, ik] != 0, and every such call puts it in.
C4_SelectedRowLeaves ==
    /\ [][Returns => (ret' \in selectable /\ ret' \notin selectable')]_vars
    /\ [][\A i \in RowIdx :
             (i \notin selectable /\ i \in selectable') =>
                (Returns /\ ret' # i /\ OrthoGraph(ret', i) # 0)]_vars
    /\ [][\A i \in RowIdx :
             (Returns /\ ret' # i /\ OrthoGraph(ret', i) # 0) =>
                i \in selectable']_vars

\* C4 witness: a row violated by x0, its own neighbour in G, had left the
\* selectable set and the last call, returning one of its neighbours, put it
\* back.
C4_Witness ==
    /\ outcome = "returned"
    /\ pc = "update"
    /\ \E i \in RowIdx :
          /\ i \in RandomOrthoGraph_initial_selectable
          /\ OrthoGraph(i, i) # 0
          /\ i \notin last.before
          /\ i \in selectable
          /\ ret # i
          /\ OrthoGraph(ret, i) # 0

\* C5: with the solver projecting onto each returned row, after every step
\* every row the iterate does not satisfy is selectable; the set starts as
\* the rows violated by x0 and changes only by adding the neighbours of the
\* returned row and removing that row.
C5_UnsatisfiedRowsSelectable ==
    /\ [](pc # "update" =>
            \A j \in RowIdx : Residual(xk, j)[1] # 0 => j \in selectable)
    /\ [](calls = 0 =>
            selectable = {j \in RowIdx : Residual(x0, j)[1] # 0})
    /\ [][selectable' # selectable =>
            /\ Returns
            /\ selectable' =
                  (selectable \cup {j \in RowIdx : OrthoGraph(ret', j) # 0})
                     \ {ret'}]_vars

\* C5 witness: after two projections a row that x0 satisfied is not
\* satisfied by the iterate, and a row that x0 violated is satisfied and no
\* longer selectable.
C5_Witness ==
    /\ pc = "select"
    /\ calls >= 2
    /\ \E j \in RowIdx :
          /\ Residual(x0, j)[1] = 0
          /\ Residual(xk, j)[1] # 0
          /\ j \in selectable
    /\ \E j \in RowIdx :
          /\ Residual(x0, j)[1] # 0
          /\ Residual(xk, j)[1] = 0
          /\ j \notin selectable

====
